---- MODULE Spec2Model ----
(***************************************************************************)
(* Model of sheldu45/portfolio-topic-segmentation:                         *)
(*   - SimpleFFNNTrainer (src/src/simple_ffnn_trainer.py): train/evaluate  *)
(*   - CustomDataset + DataLoader batching                                 *)
(*     (src/src/amazon_review_binary_classification.py, lines 232-264)     *)
(*   - cluster_data's choice of one representative row per centroid        *)
(*     (same file, lines 136-152)                                          *)
(* Three specifications share the module: Spec (the trainer), SpecDataset  *)
(* and SpecCluster.  Each leaves the other components' variables alone.    *)
(***************************************************************************)
EXTENDS Integers, Sequences, FiniteSets, TLC

VARIABLES
    \* ---- SimpleFFNNTrainer ----
    pc,            \* position of the single thread of control
    calls,         \* number of train/evaluate calls made by the client so far
    caller,        \* "train" | "client" : who invoked the running evaluate; "none"
    api,           \* "train" | "evaluate" | "none": the client's current/last call
    epochs,        \* train's epochs argument
    train_loader,  \* train's train_loader argument
    val_loader,    \* val_loader argument (train's, or evaluate's)
    log_interval,  \* train's log_interval argument
    epoch,         \* loop variable of train (0-based)
    batch_idx,     \* loop variable of train's inner loop
    running_loss,  \* train's accumulator
    val_idx,       \* position of evaluate's loop
    val_loss,      \* evaluate's accumulator
    mode,          \* self.model.training: "training" | "evaluation"
    params,        \* ModelState: the model's learnable parameters
    params0,       \* params when the client's current/last call started
    mode0,         \* mode when the client's current/last call started
    log,           \* what the current/last client call did, in order
    outcome,       \* how the client's last call ended
    result,        \* value returned by the last evaluate that returned
    last_eval,     \* the last evaluate that ended: its model, batches and end
    \* ---- CustomDataset / DataLoader ----
    ds,            \* the constructed dataset (lengths of inputs and targets)
    it,            \* the DataLoader iteration in progress
    yielded,       \* batches yielded so far by the iteration
    derr,          \* exception raised by the dataset component
    \* ---- cluster_data ----
    cpc,           \* position inside cluster_data
    embeddings,    \* corpus_embeddings, one coordinate per row
    centroids,     \* kmeans.cluster_centers_
    distances,     \* cdist(cluster_centers_, corpus_embeddings)
    centers        \* dict cluster -> representative row index

tvars == <<pc, calls, caller, api, epochs, train_loader, val_loader, log_interval,
           epoch, batch_idx, running_loss, val_idx, val_loss, mode, params,
           params0, mode0, log, outcome, result, last_eval>>
dvars == <<ds, it, yielded, derr>>
cvars == <<cpc, embeddings, centroids, distances, centers>>
vars == <<tvars, dvars, cvars>>

(***************************************************************************)
(* Bounds                                                                  *)
(***************************************************************************)
MaxEpochs == 2      \* epochs ranges over 0..MaxEpochs
MaxBatches == 2     \* a loader holds 0..MaxBatches batches
MaxCalls == 2       \* client calls of train/evaluate on one trainer
LogIntervals == {1, 2}

(***************************************************************************)
(* Values                                                                  *)
(***************************************************************************)
\* A loader argument.  given = FALSE is Python's None.
Loader(n) == [given |-> TRUE, batches |-> [i \in 1..n |-> i]]
NoLoader == [given |-> FALSE, batches |-> <<>>]
Loaders == {Loader(n) : n \in 0..MaxBatches}

\* len(loader)
LoaderLen(l) == Len(l.batches)

\* criterion(model(inputs), targets): the loss tensor of batch b under parameters p.
\* The model, the criterion and the optimizer are injected; the loss is kept as
\* the term it is computed from.
Loss(p, b) == [params |-> p, batch |-> b]

\* Python values the accumulators hold.  A float is kept as the sequence of
\* loss terms summed into it (0.0 is the empty sum).
Zero == [tag |-> "float", terms |-> <<>>]
\* loss.item()  : the float value of the loss tensor
ItemCall(l) == [tag |-> "float", terms |-> <<l>>]
\* loss.item    : the bound method itself, not invoked
ItemRef(l) == [tag |-> "method", terms |-> <<l>>]

\* a += b on a float accumulator: float + float is a float; float + anything
\* that is not numeric raises TypeError.
Add(a, b) ==
    IF a.tag = "float" /\ b.tag = "float"
    THEN [err |-> "none", val |-> [tag |-> "float", terms |-> a.terms \o b.terms]]
    ELSE [err |-> "TypeError", val |-> a]

\* Mutant of Divide: the division yields a value (NaN) instead of raising.
Divide_NoFault(a, n) == [err |-> "none", val |-> [sum |-> a.terms, n |-> n]]

\* a / n with n = len(loader): ZeroDivisionError when n = 0.
Divide(a, n) ==
    IF n = 0
    THEN [err |-> "ZeroDivisionError", val |-> [sum |-> <<>>, n |-> 0]]
    ELSE [err |-> "none", val |-> [sum |-> a.terms, n |-> n]]

NoResult == [sum |-> <<>>, n |-> 0]

\* self.optimizer.step() after loss.backward() on batch b: the parameters move
\* to the value determined by the parameters before and the batch.
OptimizerStep(p, b) == Append(p, b)

\* Mutant of ModelTrain: the epoch does not put the model in training mode.
ModelTrain_Skipped(m) == m

\* self.model.train() / self.model.eval()
ModelTrain(m) == "training"
ModelEval(m) == "evaluation"

\* Mutant of EvalForward: evaluate's loop body takes an optimizer step.
EvalForward_Stepping(p, b) == OptimizerStep(p, b)

\* what evaluate's loop body does to the parameters: forward pass and loss
\* under torch.no_grad(), no backward, no optimizer step.
EvalForward(p, b) == p

\* Mutant of ValGiven: train never runs the validation pass.
ValGiven_Never(l) == FALSE

\* `if val_loader is not None`
ValGiven(l) == l.given

Event(e, ep, b, m, pr) == [ev |-> e, epoch |-> ep, batch |-> b, mode |-> m, printed |-> pr]

(***************************************************************************)
(* SimpleFFNNTrainer                                                       *)
(***************************************************************************)
TrainerInit ==
    /\ pc = "idle"
    /\ calls = 0
    /\ caller = "none"
    /\ api = "none"
    /\ epochs = 0
    /\ train_loader = Loader(0)
    /\ val_loader = NoLoader
    /\ log_interval = 1
    /\ epoch = 0
    /\ batch_idx = 0
    /\ running_loss = Zero
    /\ val_idx = 0
    /\ val_loss = Zero
    /\ mode = "training"
    /\ params = <<>>
    /\ params0 = <<>>
    /\ mode0 = "training"
    /\ log = <<>>
    /\ outcome = "none"
    /\ result = NoResult
    /\ last_eval = [valid |-> FALSE, params |-> <<>>, loader |-> Loader(0),
                    err |-> "none", val |-> NoResult]

\* The record of an evaluate that ended (err = "none": it returned val).
Ended(p, l, e, v) == [valid |-> TRUE, params |-> p, loader |-> l, err |-> e, val |-> v]

\* An exception leaves train/evaluate and surfaces to the client.
Raise(e) ==
    /\ pc' = "idle"
    /\ outcome' = e
    /\ caller' = "none"

\* trainer.train(train_loader, val_loader, epochs, log_interval)
CallTrain ==
    /\ pc = "idle"
    /\ calls < MaxCalls
    /\ \E e \in 0..MaxEpochs, tl \in Loaders, vl \in Loaders \cup {NoLoader},
          li \in LogIntervals :
        /\ epochs' = e
        /\ train_loader' = tl
        /\ val_loader' = vl
        /\ log_interval' = li
    /\ calls' = calls + 1
    /\ api' = "train"
    /\ caller' = "none"
    /\ epoch' = 0
    /\ pc' = "epoch"
    /\ params0' = params
    /\ mode0' = mode
    /\ log' = <<>>
    /\ outcome' = "running"
    /\ UNCHANGED <<batch_idx, running_loss, val_idx, val_loss, mode, params, result>>
    /\ UNCHANGED <<last_eval, dvars, cvars>>

\* `for epoch in range(epochs)`: enter the next epoch, or leave train.
EpochStart ==
    /\ pc = "epoch"
    /\ IF epoch < epochs
       THEN /\ mode' = ModelTrain(mode)
            /\ running_loss' = Zero
            /\ batch_idx' = 0
            /\ pc' = "batch"
            /\ UNCHANGED outcome
       ELSE /\ pc' = "idle"
            /\ outcome' = "returned"
            /\ UNCHANGED <<mode, running_loss, batch_idx>>
    /\ UNCHANGED <<calls, caller, api, epochs, train_loader, val_loader, log_interval,
                   epoch, val_idx, val_loss, params, params0, mode0, log, result>>
    /\ UNCHANGED <<last_eval, dvars, cvars>>

\* One iteration of train's inner loop.
TrainBatch ==
    /\ pc = "batch"
    /\ batch_idx < LoaderLen(train_loader)
    /\ LET b == train_loader.batches[batch_idx + 1]
           loss == Loss(params, b)
           sum == Add(running_loss, ItemCall(loss))
       IN /\ params' = OptimizerStep(params, b)
          /\ running_loss' = sum.val
          /\ log' = Append(log, Event("step", epoch, b, mode,
                                      batch_idx % log_interval = 0))
    /\ batch_idx' = batch_idx + 1
    /\ UNCHANGED <<pc, calls, caller, api, epochs, train_loader, val_loader,
                   log_interval, epoch, val_idx, val_loss, mode, params0, mode0,
                   outcome, result>>
    /\ UNCHANGED <<last_eval, dvars, cvars>>

\* After the inner loop: the epoch's average, its summary line, and the
\* validation pass when one is asked for.
EpochEnd ==
    /\ pc = "batch"
    /\ batch_idx = LoaderLen(train_loader)
    /\ LET avg == Divide(running_loss, LoaderLen(train_loader))
       IN IF avg.err # "none"
          THEN /\ Raise(avg.err)
               /\ UNCHANGED <<log, epoch>>
          ELSE /\ log' = Append(log, Event("summary", epoch, 0, mode, TRUE))
               /\ IF ValGiven(val_loader)
                  THEN /\ pc' = "evaluate"
                       /\ caller' = "train"
                       /\ UNCHANGED epoch
                  ELSE /\ pc' = "epoch"
                       /\ epoch' = epoch + 1
                       /\ UNCHANGED caller
               /\ UNCHANGED outcome
    /\ UNCHANGED <<calls, api, epochs, train_loader, val_loader, log_interval,
                   batch_idx, running_loss, val_idx, val_loss, mode, params,
                   params0, mode0, result>>
    /\ UNCHANGED <<last_eval, dvars, cvars>>

\* trainer.evaluate(val_loader), called by the client.
CallEvaluate ==
    /\ pc = "idle"
    /\ calls < MaxCalls
    /\ \E vl \in Loaders : val_loader' = vl
    /\ calls' = calls + 1
    /\ api' = "evaluate"
    /\ caller' = "client"
    /\ pc' = "evaluate"
    /\ params0' = params
    /\ mode0' = mode
    /\ log' = <<>>
    /\ outcome' = "running"
    /\ UNCHANGED <<epochs, train_loader, log_interval, epoch, batch_idx,
                   running_loss, val_idx, val_loss, mode, params, result>>
    /\ UNCHANGED <<last_eval, dvars, cvars>>

\* evaluate's prologue.
EvalStart ==
    /\ pc = "evaluate"
    /\ mode' = ModelEval(mode)
    /\ val_loss' = Zero
    /\ val_idx' = 0
    /\ log' = Append(log, Event("evaluate", epoch, 0, mode, FALSE))
    /\ pc' = "val_batch"
    /\ UNCHANGED <<calls, caller, api, epochs, train_loader, val_loader,
                   log_interval, epoch, batch_idx, running_loss, params, params0,
                   mode0, outcome, result>>
    /\ UNCHANGED <<last_eval, dvars, cvars>>

\* One iteration of evaluate's loop.
EvalBatch ==
    /\ pc = "val_batch"
    /\ val_idx < LoaderLen(val_loader)
    /\ LET b == val_loader.batches[val_idx + 1]
           loss == Loss(params, b)
           sum == Add(val_loss, ItemRef(loss))
       IN /\ params' = EvalForward(params, b)
          /\ IF sum.err # "none"
             THEN /\ Raise(sum.err)
                  /\ last_eval' = Ended(params', val_loader, sum.err, NoResult)
                  /\ UNCHANGED <<val_loss, val_idx>>
             ELSE /\ val_loss' = sum.val
                  /\ val_idx' = val_idx + 1
                  /\ UNCHANGED <<pc, outcome, caller, last_eval>>
    /\ UNCHANGED <<calls, api, epochs, train_loader, val_loader, log_interval,
                   epoch, batch_idx, running_loss, mode, params0, mode0, log,
                   result>>
    /\ UNCHANGED <<dvars, cvars>>

\* After evaluate's loop: the mean, and the return to the caller.  Returning
\* into train prints the validation line and ends the epoch.
EvalEnd ==
    /\ pc = "val_batch"
    /\ val_idx = LoaderLen(val_loader)
    /\ LET avg == Divide(val_loss, LoaderLen(val_loader))
       IN /\ last_eval' = Ended(params, val_loader, avg.err, avg.val)
          /\ IF avg.err # "none"
             THEN /\ Raise(avg.err)
                  /\ UNCHANGED <<result, epoch, log>>
             ELSE /\ result' = avg.val
                  /\ IF caller = "train"
                     THEN /\ log' = Append(log, Event("val_line", epoch, 0, mode, TRUE))
                          /\ epoch' = epoch + 1
                          /\ pc' = "epoch"
                          /\ UNCHANGED outcome
                     ELSE /\ pc' = "idle"
                          /\ outcome' = "returned"
                          /\ UNCHANGED <<epoch, log>>
                  /\ caller' = "none"
    /\ UNCHANGED <<calls, api, epochs, train_loader, val_loader, log_interval,
                   batch_idx, running_loss, val_idx, val_loss, mode, params,
                   params0, mode0>>
    /\ UNCHANGED <<dvars, cvars>>

Next ==
    \/ CallTrain
    \/ EpochStart
    \/ TrainBatch
    \/ EpochEnd
    \/ CallEvaluate
    \/ EvalStart
    \/ EvalBatch
    \/ EvalEnd

(***************************************************************************)
(* CustomDataset and the DataLoader that batches it                        *)
(***************************************************************************)
MaxRows == 3        \* inputs and targets hold 0..MaxRows rows
MaxBatchSize == 3   \* batch_size ranges over 1..MaxBatchSize

DatasetIdle ==
    /\ ds = [made |-> FALSE, inputs |-> 0, targets |-> 0]
    /\ it = [active |-> FALSE, done |-> FALSE, order |-> <<>>, pos |-> 0, size |-> 1]
    /\ yielded = <<>>
    /\ derr = "none"

\* CustomDataset.__init__: stores inputs and targets as given.
DatasetInit(ni, nt) == [made |-> TRUE, inputs |-> ni, targets |-> nt]

\* CustomDataset.__len__
DatasetLen(d) == d.inputs

\* CustomDataset.__getitem__: self.inputs[idx], then self.targets[idx]; either
\* index raises IndexError when idx is past the end.  Row idx stands for its
\* (input, target) pair.
GetItem(d, idx) ==
    IF idx >= d.inputs \/ idx >= d.targets
    THEN [err |-> "IndexError", item |-> idx]
    ELSE [err |-> "none", item |-> idx]

\* the permutations of 0..n-1, as sequences
Orders(n) ==
    {o \in [1..n -> 0..(n - 1)] : \A i, j \in 1..n : o[i] = o[j] => i = j}
\* the sampler's index order: a fresh permutation when shuffle is set,
\* 0, 1, .., n-1 otherwise
SamplerOrders(n, shuffle) ==
    IF shuffle THEN Orders(n) ELSE {[i \in 1..n |-> i - 1]}

Min(a, b) == IF a <= b THEN a ELSE b

\* Mutant of BatchIndices: the short last batch is dropped (yielded empty).
BatchIndices_DropLast(order, pos, size) ==
    IF pos + size <= Len(order) THEN SubSeq(order, pos + 1, pos + size) ELSE <<>>

\* the batch sampler: the next `size` indices of the order, fewer at the end
BatchIndices(order, pos, size) == SubSeq(order, pos + 1, Min(pos + size, Len(order)))

\* dataset = CustomDataset(inputs, targets)
Construct ==
    /\ ~it.active
    /\ \E ni \in 0..MaxRows, nt \in 0..MaxRows : ds' = DatasetInit(ni, nt)
    /\ derr' = "none"
    /\ it' = [it EXCEPT !.done = FALSE]
    /\ yielded' = <<>>
    /\ UNCHANGED <<tvars, cvars>>

\* dataset[i] for an i below len(dataset)
Item ==
    /\ ds.made /\ ~it.active
    /\ \E i \in 0..(DatasetLen(ds) - 1) : derr' = GetItem(ds, i).err
    /\ UNCHANGED <<ds, it, yielded, tvars, cvars>>

\* iter(DataLoader(dataset, batch_size, shuffle))
IterStart ==
    /\ ds.made /\ ~it.active
    /\ \E size \in 1..MaxBatchSize, shuffle \in BOOLEAN :
          \E order \in SamplerOrders(DatasetLen(ds), shuffle) :
             it' = [active |-> TRUE, done |-> FALSE, order |-> order, pos |-> 0,
                    size |-> size]
    /\ yielded' = <<>>
    /\ derr' = "none"
    /\ UNCHANGED <<ds, tvars, cvars>>

\* next(iterator): fetch the items of the next batch and yield them
NextBatch ==
    /\ it.active
    /\ it.pos < Len(it.order)
    /\ LET idxs == BatchIndices(it.order, it.pos, it.size)
           bad == {k \in 1..Len(idxs) : GetItem(ds, idxs[k]).err # "none"}
       IN IF bad # {}
          THEN /\ derr' = "IndexError"
               /\ it' = [it EXCEPT !.active = FALSE]
               /\ UNCHANGED yielded
          ELSE /\ yielded' = Append(yielded, [k \in 1..Len(idxs) |-> GetItem(ds, idxs[k]).item])
               /\ it' = [it EXCEPT !.pos = it.pos + it.size]
               /\ UNCHANGED derr
    /\ UNCHANGED <<ds, tvars, cvars>>

\* next(iterator) past the last batch: StopIteration ends the for loop
IterEnd ==
    /\ it.active
    /\ it.pos >= Len(it.order)
    /\ it' = [it EXCEPT !.active = FALSE, !.done = TRUE]
    /\ UNCHANGED <<ds, yielded, derr, tvars, cvars>>

NextDataset ==
    \/ Construct
    \/ Item
    \/ IterStart
    \/ NextBatch
    \/ IterEnd

(***************************************************************************)
(* cluster_data: one representative row per cluster centre                 *)
(***************************************************************************)
MaxPoints == 3      \* corpus_embeddings holds 1..MaxPoints rows
MaxClusters == 2    \* n_clusters ranges over 1..MaxClusters
MaxCoord == 2       \* rows and centres are points 0..MaxCoord on a line

ClusterIdle ==
    /\ cpc = "off"
    /\ embeddings = <<>>
    /\ centroids = <<>>
    /\ distances = <<>>
    /\ centers = <<>>

\* after load_data: the corpus is embedded
ClusterInit ==
    /\ cpc = "loaded"
    /\ \E n \in 1..MaxPoints : embeddings \in [1..n -> 0..MaxCoord]
    /\ centroids = <<>>
    /\ distances = <<>>
    /\ centers = <<>>

\* Euclidean distance of two points on a line: sqrt((a - b)^2)
Euclid(a, b) == IF a >= b THEN a - b ELSE b - a

\* scipy.spatial.distance.cdist(XA, XB): row i holds the distances of XA[i]
\* to every row of XB
Cdist(xa, xb) == [i \in 1..Len(xa) |-> [j \in 1..Len(xb) |-> Euclid(xa[i], xb[j])]]

\* np.argsort(d) with the default kind, which is not stable: an index order
\* (0-based) along which d is nondecreasing, equal values in any order
ArgSorts(d) ==
    {o \in Orders(Len(d)) : \A i \in 1..(Len(d) - 1) : d[o[i] + 1] <= d[o[i + 1] + 1]}

\* KMeans(n_clusters).fit(corpus_embeddings), then cdist
Fit ==
    /\ cpc = "loaded"
    /\ \E k \in 1..Min(MaxClusters, Len(embeddings)) :
          \E cs \in [1..k -> 0..MaxCoord] :
             /\ centroids' = cs
             /\ distances' = Cdist(cs, embeddings)
    /\ centers' = <<>>
    /\ cpc' = "loop"
    /\ UNCHANGED <<embeddings, tvars, dvars>>

\* one iteration of `for i, d in enumerate(distances)`
PickCenter ==
    /\ cpc = "loop"
    /\ Len(centers) < Len(distances)
    /\ LET d == distances[Len(centers) + 1]
       IN \E o \in ArgSorts(d) : centers' = Append(centers, o[1])
    /\ UNCHANGED <<cpc, embeddings, centroids, distances, tvars, dvars>>

\* return kmeans, centers
ClusterReturn ==
    /\ cpc = "loop"
    /\ Len(centers) = Len(distances)
    /\ cpc' = "done"
    /\ UNCHANGED <<embeddings, centroids, distances, centers, tvars, dvars>>

NextCluster ==
    \/ Fit
    \/ PickCenter
    \/ ClusterReturn

(***************************************************************************)
(* Specifications                                                          *)
(***************************************************************************)
Init == TrainerInit /\ DatasetIdle /\ ClusterIdle
Spec == Init /\ [][Next]_vars

InitDataset == TrainerInit /\ DatasetIdle /\ ClusterIdle
SpecDataset == InitDataset /\ [][NextDataset]_vars

InitCluster == TrainerInit /\ DatasetIdle /\ ClusterInit
SpecCluster == InitCluster /\ [][NextCluster]_vars

(***************************************************************************)
(* Claims about SimpleFFNNTrainer (specification Spec)                     *)
(***************************************************************************)
IsStep(e) == e.ev = "step"
IsSummary(e) == e.ev = "summary"
IsEvaluate(e) == e.ev = "evaluate"
Steps(l) == SelectSeq(l, IsStep)
Summaries(l) == SelectSeq(l, IsSummary)
Evaluates(l) == SelectSeq(l, IsEvaluate)
EvalAt == {i \in 1..Len(log) : IsEvaluate(log[i])}
StepAt == {i \in 1..Len(log) : IsStep(log[i])}

\* the client's last call was a train call and it has ended
TrainEnded == pc = "idle" /\ api = "train"
TrainLen == LoaderLen(train_loader)

\* C1: a train call with epochs E >= 1 over B >= 1 batches runs every epoch to
\* the end: it returns having made exactly E*B optimizer steps, batch by batch
\* in the order the loader yields them, having printed exactly E epoch
\* summaries, and with ModelState different from its value at the call.
C1_TrainRunsEveryEpoch ==
    (TrainEnded /\ epochs >= 1 /\ TrainLen >= 1) =>
        /\ outcome = "returned"
        /\ Len(Steps(log)) = epochs * TrainLen
        /\ \A i \in 1..Len(Steps(log)) :
              Steps(log)[i].batch = train_loader.batches[((i - 1) % TrainLen) + 1]
        /\ Len(Summaries(log)) = epochs
        /\ params # params0

\* C2: evaluate never mutates ModelState: while evaluate runs, whether it goes
\* on, returns or raises, the parameters stay as they are and no optimizer step
\* is taken; and an evaluate that ends on the same model and the same batches
\* as the evaluate that ended before it ends the same way with the same value.
C2_EvaluateFrame ==
    [][ (pc \in {"evaluate", "val_batch"}) =>
           /\ params' = params
           /\ Steps(log') = Steps(log)
           /\ (last_eval' # last_eval /\ last_eval.valid
               /\ last_eval'.params = last_eval.params
               /\ last_eval'.loader = last_eval.loader)
                  => (last_eval'.err = last_eval.err /\ last_eval'.val = last_eval.val)
      ]_vars
\* an evaluate over at least one batch has ended, called on a trained model
C2_Witness ==
    /\ last_eval.valid
    /\ LoaderLen(last_eval.loader) >= 1
    /\ last_eval.params # <<>>
    /\ api = "evaluate" /\ pc = "idle"

\* the mean of the per-batch loss values of loader l under parameters p
MeanLoss(p, l) ==
    [sum |-> [i \in 1..LoaderLen(l) |-> Loss(p, l.batches[i])], n |-> LoaderLen(l)]

\* C3: an evaluate over a non-empty sequence of batches returns the mean
\* per-batch loss: the sum of each batch's loss value over the number of batches.
C3_EvaluateReturnsMean ==
    (last_eval.valid /\ LoaderLen(last_eval.loader) >= 1) =>
        /\ last_eval.err = "none"
        /\ last_eval.val = MeanLoss(last_eval.params, last_eval.loader)

\* C4: an evaluate over an empty sequence of batches fails with
\* EmptyLoaderError: it returns no value and raises no raw division fault.
C4_EmptyLoaderError ==
    (last_eval.valid /\ LoaderLen(last_eval.loader) = 0) =>
        last_eval.err = "EmptyLoaderError"

\* C5: train invokes evaluate only when val_loader is given, and then once for
\* an epoch, right after that epoch's last training batch has been stepped and
\* its summary printed; no training step of the epoch follows it, and no step
\* of a later epoch is taken before the evaluate of the epoch before.
C5_EvaluateAfterEpoch ==
    (api = "train") =>
        /\ ~val_loader.given => EvalAt = {}
        /\ \A i \in EvalAt :
              /\ i > 1 /\ IsSummary(log[i - 1]) /\ log[i - 1].epoch = log[i].epoch
              /\ Cardinality({j \in StepAt : j < i /\ log[j].epoch = log[i].epoch})
                    = TrainLen
              /\ \A j \in StepAt : j > i => log[j].epoch > log[i].epoch
              /\ \A k \in EvalAt : log[k].epoch = log[i].epoch => k = i
        /\ val_loader.given =>
              /\ \A j \in StepAt : log[j].epoch > 0 =>
                    \E i \in EvalAt : i < j /\ log[i].epoch = log[j].epoch - 1
              /\ \A j \in 1..Len(log) : IsSummary(log[j]) =>
                    \/ j = Len(log) /\ pc = "evaluate"
                    \/ j < Len(log) /\ IsEvaluate(log[j + 1])
\* train has invoked evaluate after stepping both batches of an epoch
C5_Witness ==
    /\ api = "train"
    /\ TrainLen >= 2
    /\ EvalAt # {}
    /\ Len(Steps(log)) = TrainLen

\* C6: every optimizer step is taken in training mode, also in a train call
\* that starts after an evaluate has left the model in evaluation mode.
C6_StepOnlyInTrainingMode ==
    \A i \in StepAt : log[i].mode = "training"
\* a train call that started in evaluation mode has taken a step
C6_Witness ==
    /\ api = "train"
    /\ mode0 = "evaluation"
    /\ StepAt # {}

\* C10: a train call with epochs >= 1 over zero batches takes no optimizer
\* step, invokes no evaluate, leaves ModelState as it was and ends in the first
\* epoch with ZeroDivisionError from the average-loss division; no later epoch
\* is started.
C10_EmptyTrainLoader ==
    (api = "train" /\ epochs >= 1 /\ TrainLen = 0) =>
        /\ log = <<>>
        /\ params = params0
        /\ epoch = 0
        /\ pc \in {"epoch", "batch", "idle"}
        /\ pc = "idle" => outcome = "ZeroDivisionError"
\* such a call, with a validation loader and two epochs asked for, has ended
C10_Witness ==
    /\ TrainEnded /\ epochs >= 2 /\ TrainLen = 0
    /\ val_loader.given
    /\ outcome = "ZeroDivisionError"

(***************************************************************************)
(* Claims about CustomDataset / DataLoader (specification SpecDataset)     *)
(***************************************************************************)
RECURSIVE Flatten(_)
Flatten(bs) == IF bs = <<>> THEN <<>> ELSE Head(bs) \o Flatten(Tail(bs))

C8_ConstructionChecksLengths ==
    ds.made =>
        /\ ds.inputs = ds.targets
        /\ DatasetLen(ds) = ds.targets
        /\ \A i \in 0..(DatasetLen(ds) - 1) : GetItem(ds, i).err = "none"

(***************************************************************************)
(* Claims about cluster_data (specification SpecCluster)                   *)
(***************************************************************************)
\* C9: the representative of every cluster is a row at minimal distance from
\* the cluster's centre, and among the rows at that minimal distance it is
\* the one with the lowest row index.
C9_RepresentativeIsFirstArgmin ==
    \A c \in 1..Len(centers) :
        LET d == distances[c]
            r == centers[c] + 1
        IN /\ \A j \in 1..Len(d) : d[r] <= d[j]
           /\ \A j \in 1..Len(d) : d[j] = d[r] => r <= j

====
